---- MODULE Spec2Model ----
(***************************************************************************)
(* Model of svelte-attach-gsap (src/src/lib/index.ts): the AnimationStore, *)
(* the ordering resolver, the Timeline wrapper (Sequencer) that rebuilds   *)
(* the engine timeline on every add/remove, and the attach bridges.        *)
(*                                                                         *)
(* Value encoding.  JavaScript values that travel through args/position    *)
(* are strings: "undef" (undefined), "vars" (a well-formed property map),  *)
(* "bad" (a property map the engine rejects), "" (the empty string),       *)
(* "lbl" (a non-empty string position), "n1" (a number position).          *)
(* An optional number (order) is a sequence: <<>> is undefined, <<n>> is n.*)
(*                                                                         *)
(* Specifications.  Spec drives one Timeline through addAnimation, the     *)
(* cleanup closures and clear.  SpecBridge drives a sequencer-bound        *)
(* builder (TimelineGSAP) and its combined cleanups.  SpecStandalone       *)
(* drives a standalone builder (ToGSAP) and its cleanups.                  *)
(***************************************************************************)
EXTENDS Integers, Sequences, FiniteSets, TLC

VARIABLES
    store,        \* AnimationStore.store : sequence of TweenData
    nextId,       \* AnimationStore.nextId
    children,     \* children of the underlying gsap timeline, in insertion order
    issued,       \* ids whose addAnimation returned a cleanup closure
    invoked,      \* ids whose cleanup closure has been invoked at least once
    outcome,      \* how the last call ended: "returned" or "threw"
    engineCalls,  \* number of gsapMethod construction calls made by the last call
    lastOp,       \* the last call: [op, id, removed, again]
    tlBuilder,    \* the sequencer-bound AttachFunction: <<>> before it is created
    attachments,  \* combined cleanups returned by the sequencer-bound builder
    stBuilder,    \* the standalone AttachFunction: <<>> before it is created
    stTweens,     \* every tween handle the standalone bridge has had constructed
    stAttachments,\* cleanups returned by the standalone builder
    stAttachCalls,\* number of invocations of the standalone builder
    parseArgs,    \* the arguments of a parseTimelineOptions call
    parseResult,  \* what that call returned: <<>> before the call
    timelineRegistry, \* ToGSAP's private Map: name -> registered Timeline, 0 if none
    facade,       \* properties defined on the facade by registerTimeline
    timelines,    \* number of Timeline objects constructed so far
    found         \* the last lookup on the facade: <<>> or <<[name, value]>>

coreVars == <<store, nextId, children, issued, invoked>>
bridgeVars == <<tlBuilder, attachments>>
stVars == <<stBuilder, stTweens, stAttachments, stAttachCalls>>
parseVars == <<parseArgs, parseResult>>
facadeVars == <<timelineRegistry, facade, timelines, found>>

vars == <<store, nextId, children, issued, invoked, outcome, engineCalls, lastOp,
          tlBuilder, attachments, stBuilder, stTweens, stAttachments, stAttachCalls,
          parseArgs, parseResult, timelineRegistry, facade, timelines, found>>

(***************************************************************************)
(* Bounds                                                                  *)
(***************************************************************************)
MaxId == 3
MaxBridgeId == 4
MaxChain == 2
MaxAttach == 2
MaxStAttach == 2
MaxDetach == 2
MaxTimelines == 3
MaxRecoverId == 3

Undefined == "undef"

\* Math.max's start value in rebuildTimeline's reduce: below every order.
NegInfinity == -1000

Orders == {1, 2, 3, 5}
OptOrders == {<<>>} \cup {<<o>> : o \in Orders}
DirectVars == {"vars", "bad"}
DirectPositions == {Undefined, "lbl"}
Methods == {"to", "from", "fromTo", "set"}
Elements == {"e1", "e2"}
PositionValues == {Undefined, "", "lbl", "n1"}
RegistryNames == {"tl", "hero", "to"}

(***************************************************************************)
(* JavaScript helpers                                                      *)
(***************************************************************************)
TypeOf(v) ==
    CASE v = Undefined -> "undefined"
      [] v \in {"vars", "bad"} -> "object"
      [] v \in {"", "lbl"} -> "string"
      [] v = "n1" -> "number"

Max(a, b) == IF a >= b THEN a ELSE b

\* Array.prototype.slice(0, n)
Slice(s, n) == SubSeq(s, 1, n)

(***************************************************************************)
(* AnimationStore                                                          *)
(***************************************************************************)
\* unshift instead of push
addToStore_unshift(st, item) == <<item>> \o st

\* addToStore: this.store.push(item)
addToStore(st, item) == Append(st, item)

\* the id is taken for the descriptor's place in the Store
findIndex_byPosition(st, id) ==
    IF id + 1 \in 1..Len(st) THEN id + 1 ELSE 0

\* findIndex: first index whose item has the id, 0 when none (JS: -1)
findIndex(st, id) ==
    IF \E i \in 1..Len(st) : st[i].id = id
    THEN CHOOSE i \in 1..Len(st) :
            st[i].id = id /\ \A j \in 1..(i - 1) : st[j].id # id
    ELSE 0

\* splice off by one: removes the element after the one found
Splice_offByOne(st, index) ==
    IF index + 1 > Len(st) THEN st
    ELSE [i \in 1..(Len(st) - 1) |-> IF i < index + 1 THEN st[i] ELSE st[i + 1]]

\* splice(index, 1)
Splice(st, index) ==
    [i \in 1..(Len(st) - 1) |-> IF i < index THEN st[i] ELSE st[i + 1]]

\* removeFromStore without the index !== -1 test: splice(-1, 1) drops the
\* last element
removeFromStore_noGuard(st, id) ==
    LET index == findIndex(st, id)
    IN IF index # 0
       THEN [store |-> Splice(st, index), removed |-> TRUE]
       ELSE [store |-> IF st = <<>> THEN st ELSE SubSeq(st, 1, Len(st) - 1),
             removed |-> TRUE]

\* removeFromStore with the predicate item.id === id
removeFromStore(st, id) ==
    LET index == findIndex(st, id)
    IN IF index # 0
       THEN [store |-> Splice(st, index), removed |-> TRUE]
       ELSE [store |-> st, removed |-> FALSE]

(***************************************************************************)
(* TimelineUtils.calculateEffectiveOrder                                   *)
(***************************************************************************)
\* unordered items start at maxExplicitOrder instead of maxExplicitOrder + 1
calculateEffectiveOrder_noPlusOne(item, maxExplicitOrder) ==
    IF item.order # <<>>
    THEN item.order[1]
    ELSE LET startingOrderForUnordered ==
                IF maxExplicitOrder = NegInfinity THEN 0 ELSE maxExplicitOrder
         IN startingOrderForUnordered + item.id

\* no special case for the -Infinity start value
calculateEffectiveOrder_noSentinel(item, maxExplicitOrder) ==
    IF item.order # <<>>
    THEN item.order[1]
    ELSE maxExplicitOrder + 1 + item.id

\* the id is subtracted from the start value when an explicit order exists
calculateEffectiveOrder_minusId(item, maxExplicitOrder) ==
    IF item.order # <<>>
    THEN item.order[1]
    ELSE IF maxExplicitOrder = NegInfinity THEN item.id
         ELSE maxExplicitOrder + 1 - item.id

calculateEffectiveOrder(item, maxExplicitOrder) ==
    IF item.order # <<>>
    THEN item.order[1]
    ELSE LET startingOrderForUnordered ==
                IF maxExplicitOrder = NegInfinity THEN 0 ELSE maxExplicitOrder + 1
         IN startingOrderForUnordered + item.id

(***************************************************************************)
(* Timeline.rebuildTimeline                                                *)
(***************************************************************************)
\* the reduce keeps the last explicit order it meets instead of the largest
RECURSIVE maxExplicitOrderOf_last(_)
maxExplicitOrderOf_last(st) ==
    IF st = <<>> THEN NegInfinity
    ELSE LET max == maxExplicitOrderOf_last(Slice(st, Len(st) - 1))
             item == st[Len(st)]
         IN IF item.order # <<>> THEN item.order[1] ELSE max

\* store.reduce(... Math.max(max, item.order) ..., -Infinity)
RECURSIVE maxExplicitOrderOf(_)
maxExplicitOrderOf(st) ==
    IF st = <<>> THEN NegInfinity
    ELSE LET max == maxExplicitOrderOf(Slice(st, Len(st) - 1))
             item == st[Len(st)]
         IN IF item.order # <<>> THEN Max(max, item.order[1]) ELSE max

\* comparator with the operands swapped: orderB - orderA
compare_descending(a, b, maxExplicitOrder) ==
    calculateEffectiveOrder(b, maxExplicitOrder)
        - calculateEffectiveOrder(a, maxExplicitOrder)

\* the sort comparator: orderA - orderB
compare(a, b, maxExplicitOrder) ==
    calculateEffectiveOrder(a, maxExplicitOrder)
        - calculateEffectiveOrder(b, maxExplicitOrder)

\* stable insertion of x into an already sorted sequence
RECURSIVE InsertSorted(_, _, _)
InsertSorted(x, s, m) ==
    IF s = <<>> THEN <<x>>
    ELSE IF compare(s[Len(s)], x, m) <= 0
         THEN Append(s, x)
         ELSE Append(InsertSorted(x, Slice(s, Len(s) - 1), m), s[Len(s)])

\* [...store].sort(comparator): Array.prototype.sort is stable
RECURSIVE sortedTweens(_, _)
sortedTweens(st, m) ==
    IF st = <<>> THEN <<>>
    ELSE InsertSorted(st[Len(st)], sortedTweens(Slice(st, Len(st) - 1), m), m)

\* the engine rejects a construction call whose args hold a malformed map
gsapThrows(args) == \E i \in 1..Len(args) : args[i] = "bad"

\* timeline.add(tween, position) / timeline.add(tween)
timelineAdd(d) ==
    [src |-> d.id, gsapMethod |-> d.gsapMethod, element |-> d.element,
     args |-> d.args,
     position |-> IF d.position # Undefined /\ d.position # ""
                  THEN d.position ELSE Undefined]

\* index of the first tween whose construction throws, 0 when none
FirstThrow(sorted) ==
    IF \E i \in 1..Len(sorted) : gsapThrows(sorted[i].args)
    THEN CHOOSE i \in 1..Len(sorted) :
            gsapThrows(sorted[i].args)
            /\ \A j \in 1..(i - 1) : ~gsapThrows(sorted[j].args)
    ELSE 0

\* a rejected construction is caught and skipped, and the rebuild goes on
rebuildTimeline_swallow(st) ==
    LET sorted == sortedTweens(st, maxExplicitOrderOf(st))
        built == SelectSeq(sorted, LAMBDA d : ~gsapThrows(d.args))
    IN [children |-> [i \in 1..Len(built) |-> timelineAdd(built[i])],
        threw |-> FALSE,
        calls |-> Len(sorted)]

rebuildTimeline(st) ==
    LET sorted == sortedTweens(st, maxExplicitOrderOf(st))
        k == FirstThrow(sorted)
        n == IF k = 0 THEN Len(sorted) ELSE k - 1
    IN [children |-> [i \in 1..n |-> timelineAdd(sorted[i])],
        threw |-> k # 0,
        calls |-> IF k = 0 THEN Len(sorted) ELSE k]

(***************************************************************************)
(* Timeline.addAnimation, its cleanup closure, Timeline.clear              *)
(***************************************************************************)
TweenData(gsapMethod, element, args, order, position, id) ==
    [gsapMethod |-> gsapMethod, element |-> element, args |-> args,
     order |-> order, position |-> position, id |-> id]

Init ==
    /\ store = <<>>
    /\ nextId = 0
    /\ children = <<>>
    /\ issued = {}
    /\ invoked = {}
    /\ outcome = "returned"
    /\ engineCalls = 0
    /\ lastOp = [op |-> "init", id |-> -1, removed |-> FALSE, again |-> FALSE]
    /\ tlBuilder = <<>>
    /\ attachments = <<>>
    /\ stBuilder = <<>>
    /\ stTweens = <<>>
    /\ stAttachments = <<>>
    /\ stAttachCalls = 0
    /\ parseArgs = [positionOrOptions |-> [obj |-> FALSE, position |-> Undefined, order |-> <<>>],
                    order |-> <<>>]
    /\ parseResult = <<>>
    /\ timelineRegistry = [name \in RegistryNames |-> 0]
    /\ facade = [name \in RegistryNames |-> 0]
    /\ timelines = 0
    /\ found = <<>>

\* a descriptor whose rebuild fails is taken out of the Store again
addAnimation_rollback(gsapMethod, element, args, order, position) ==
    /\ LET id == nextId
           st == addToStore(store, TweenData(gsapMethod, element, args, order, position, id))
           rb == rebuildTimeline(st)
       IN /\ nextId' = nextId + 1
          /\ store' = IF rb.threw THEN store ELSE st
          /\ children' = rb.children
          /\ engineCalls' = rb.calls
          /\ outcome' = IF rb.threw THEN "threw" ELSE "returned"
          /\ issued' = IF rb.threw THEN issued ELSE issued \cup {id}
          /\ lastOp' = [op |-> "addAnimation", id |-> id, removed |-> FALSE, again |-> FALSE]
    /\ UNCHANGED <<invoked, bridgeVars, stVars, parseVars, facadeVars>>

addAnimation(gsapMethod, element, args, order, position) ==
    /\ LET id == nextId
           st == addToStore(store, TweenData(gsapMethod, element, args, order, position, id))
           rb == rebuildTimeline(st)
       IN /\ nextId' = nextId + 1
          /\ store' = st
          /\ children' = rb.children
          /\ engineCalls' = rb.calls
          /\ outcome' = IF rb.threw THEN "threw" ELSE "returned"
          /\ issued' = IF rb.threw THEN issued ELSE issued \cup {id}
          /\ lastOp' = [op |-> "addAnimation", id |-> id, removed |-> FALSE, again |-> FALSE]
    /\ UNCHANGED <<invoked, bridgeVars, stVars, parseVars, facadeVars>>

AddAnimation ==
    /\ nextId < MaxId
    /\ \E v \in DirectVars, o \in OptOrders, p \in DirectPositions :
        addAnimation("to", "e1", <<v>>, o, p)

\* the rebuild adds to the timeline without emptying it first
cleanup_noClear(id) ==
    /\ id \in issued
    /\ LET rm == removeFromStore(store, id)
           rb == rebuildTimeline(rm.store)
       IN /\ store' = rm.store
          /\ children' = children \o rb.children
          /\ engineCalls' = rb.calls
          /\ outcome' = IF rb.threw THEN "threw" ELSE "returned"
          /\ lastOp' = [op |-> "cleanup", id |-> id, removed |-> rm.removed,
                      again |-> id \in invoked]
    /\ invoked' = invoked \cup {id}
    /\ UNCHANGED <<nextId, issued, bridgeVars, stVars, parseVars, facadeVars>>

\* the closure returned by addAnimation for descriptor id
cleanup(id) ==
    /\ id \in issued
    /\ LET rm == removeFromStore(store, id)
           rb == rebuildTimeline(rm.store)
       IN /\ store' = rm.store
          /\ children' = rb.children
          /\ engineCalls' = rb.calls
          /\ outcome' = IF rb.threw THEN "threw" ELSE "returned"
          /\ lastOp' = [op |-> "cleanup", id |-> id, removed |-> rm.removed,
                      again |-> id \in invoked]
    /\ invoked' = invoked \cup {id}
    /\ UNCHANGED <<nextId, issued, bridgeVars, stVars, parseVars, facadeVars>>

Cleanup == \E id \in issued : cleanup(id)

\* clearing the Store also restarts the id counter
Clear_resetIds ==
    /\ store' = <<>>
    /\ children' = <<>>
    /\ nextId' = 0
    /\ engineCalls' = 0
    /\ outcome' = "returned"
    /\ lastOp' = [op |-> "clear", id |-> -1, removed |-> FALSE, again |-> FALSE]
    /\ UNCHANGED <<issued, invoked, bridgeVars, stVars, parseVars, facadeVars>>

\* Timeline.clear: clearStore() then timeline.clear()
Clear ==
    /\ store' = <<>>
    /\ children' = <<>>
    /\ engineCalls' = 0
    /\ outcome' = "returned"
    /\ lastOp' = [op |-> "clear", id |-> -1, removed |-> FALSE, again |-> FALSE]
    /\ UNCHANGED <<nextId, issued, invoked, bridgeVars, stVars, parseVars, facadeVars>>

Next == AddAnimation \/ Cleanup \/ Clear

Spec == Init /\ [][Next]_vars

(***************************************************************************)
(* TimelineUtils.parseTimelineOptions.  The first argument is a record     *)
(* [obj, position, order]: obj tells an options object from a bare value,  *)
(* which is then held in position.                                         *)
(***************************************************************************)
\* an options object without an order field falls back to the trailing argument
parseTimelineOptions_fallback(positionOrOptions, order) ==
    IF positionOrOptions.obj
    THEN [position |-> positionOrOptions.position,
          order |-> IF positionOrOptions.order = <<>> THEN order ELSE positionOrOptions.order]
    ELSE [position |-> positionOrOptions.position, order |-> order]

parseTimelineOptions(positionOrOptions, order) ==
    IF positionOrOptions.obj
    THEN [position |-> positionOrOptions.position, order |-> positionOrOptions.order]
    ELSE [position |-> positionOrOptions.position, order |-> order]

Bare(v) == [obj |-> FALSE, position |-> v, order |-> <<>>]
Options(p, o) == [obj |-> TRUE, position |-> p, order |-> o]

PositionOrOptions ==
    {Bare(v) : v \in PositionValues} \cup {Options("lbl", <<1>>)}

\* Every shape of a parseTimelineOptions call: a bare value (null included,
\* which the typeof test sends to the bare branch) or an options object with
\* or without each field, and a trailing order argument or none.
ParseInputs ==
    [positionOrOptions :
        {Bare(v) : v \in PositionValues \cup {"null"}}
           \cup {Options(p, o) : p \in PositionValues, o \in OptOrders},
     order : OptOrders]

InitParse ==
    /\ parseArgs \in ParseInputs
    /\ parseResult = <<>>
    /\ store = <<>>
    /\ nextId = 0
    /\ children = <<>>
    /\ issued = {}
    /\ invoked = {}
    /\ outcome = "returned"
    /\ engineCalls = 0
    /\ lastOp = [op |-> "init", id |-> -1, removed |-> FALSE, again |-> FALSE]
    /\ tlBuilder = <<>>
    /\ attachments = <<>>
    /\ stBuilder = <<>>
    /\ stTweens = <<>>
    /\ stAttachments = <<>>
    /\ stAttachCalls = 0
    /\ timelineRegistry = [name \in RegistryNames |-> 0]
    /\ facade = [name \in RegistryNames |-> 0]
    /\ timelines = 0
    /\ found = <<>>

ParseCall ==
    /\ parseResult = <<>>
    /\ parseResult' = <<parseTimelineOptions(parseArgs.positionOrOptions, parseArgs.order)>>
    /\ UNCHANGED <<coreVars, outcome, engineCalls, lastOp, bridgeVars, stVars,
                   parseArgs, facadeVars>>

NextParse == ParseCall

SpecParse == InitParse /\ [][NextParse]_vars

(***************************************************************************)
(* TimelineGSAP.createTimelineAttach and ChainableMethodFactory            *)
(***************************************************************************)
Animation(method, args, order) == [method |-> method, args |-> args, order |-> order]

\* TimelineGSAP.to/from/fromTo/set: the base args of the initiating call
BaseArgs(methodName, v) ==
    IF methodName = "fromTo" THEN <<"vars", v>> ELSE <<v>>

createTimelineAttach(methodName, baseArgs, positionOrOptions, order) ==
    LET parsed == parseTimelineOptions(positionOrOptions, order)
    IN [methodName |-> methodName,
        baseArgs |-> baseArgs,
        position |-> parsed.position,
        animations |-> <<Animation(methodName, baseArgs, parsed.order)>>]

TlCreate ==
    /\ tlBuilder = <<>>
    /\ \E methodName \in Methods, po \in PositionOrOptions :
          tlBuilder' = <<createTimelineAttach(methodName, BaseArgs(methodName, "vars"), po, <<>>)>>
    /\ lastOp' = [op |-> "create", id |-> -1, removed |-> FALSE, again |-> FALSE]
    /\ engineCalls' = 0
    /\ outcome' = "returned"
    /\ UNCHANGED <<coreVars, attachments, stVars, parseVars, facadeVars>>

\* addTimelineMethods: the entry pushed by a chained to/from/fromTo/set
addTimelineMethods(method, v, positionOrOptions, order) ==
    LET parsed == parseTimelineOptions(positionOrOptions, order)
    IN Animation(method, Append(BaseArgs(method, v), parsed.position), parsed.order)

\* the chained entry is put in front of the list instead of at its end
TlChain_unshift ==
    /\ tlBuilder # <<>>
    /\ lastOp.op \in {"create", "chain"}
    /\ Len(tlBuilder[1].animations) < MaxChain
    /\ \E method \in Methods, po \in PositionOrOptions :
          tlBuilder' = <<[tlBuilder[1] EXCEPT !.animations =
                             <<addTimelineMethods(method, "vars", po, <<>>)>> \o @]>>
    /\ lastOp' = [op |-> "chain", id |-> -1, removed |-> FALSE, again |-> FALSE]
    /\ engineCalls' = 0
    /\ outcome' = "returned"
    /\ UNCHANGED <<coreVars, attachments, stVars, parseVars, facadeVars>>

\* The calls of one fluent chain run back to back: a chained call follows
\* the initiating call or another chained call.
TlChain ==
    /\ tlBuilder # <<>>
    /\ lastOp.op \in {"create", "chain"}
    /\ Len(tlBuilder[1].animations) < MaxChain
    /\ \/ \E method \in Methods, po \in PositionOrOptions :
             tlBuilder' = <<[tlBuilder[1] EXCEPT !.animations =
                                Append(@, addTimelineMethods(method, "vars", po, <<>>))]>>
       \/ tlBuilder' = <<[tlBuilder[1] EXCEPT !.animations =
                             Append(@, addTimelineMethods("to", "bad", Bare(Undefined), <<>>))]>>
    /\ lastOp' = [op |-> "chain", id |-> -1, removed |-> FALSE, again |-> FALSE]
    /\ engineCalls' = 0
    /\ outcome' = "returned"
    /\ UNCHANGED <<coreVars, attachments, stVars, parseVars, facadeVars>>

\* attachFunction's position resolution for one entry of the chain
ResolveEntry(b, entry) ==
    LET args == entry.args
        last == args[Len(args)]
    IN IF Len(b.animations) = 1 /\ b.position # Undefined /\ b.position # ""
       THEN [animPosition |-> b.position,
             cleanArgs |-> IF Len(args) > Len(b.baseArgs)
                           THEN Slice(args, Len(b.baseArgs)) ELSE args]
       ELSE IF /\ Len(args) > Len(b.baseArgs)
               /\ TypeOf(last) \in {"string", "number"}
               /\ b.methodName # "set"
            THEN [animPosition |-> last, cleanArgs |-> Slice(args, Len(args) - 1)]
            ELSE [animPosition |-> Undefined, cleanArgs |-> args]

\* the for loop of attachFunction: one addAnimation per entry, stopped by
\* the first rebuild that throws
RECURSIVE AttachLoop(_, _, _, _)
AttachLoop(b, element, i, r) ==
    IF i > Len(b.animations) \/ r.threw THEN r
    ELSE LET entry == b.animations[i]
             res == ResolveEntry(b, entry)
             st == addToStore(r.store,
                              TweenData(entry.method, element, res.cleanArgs,
                                        entry.order, res.animPosition, r.nextId))
             rb == rebuildTimeline(st)
         IN AttachLoop(b, element, i + 1,
                [store |-> st, nextId |-> r.nextId + 1, children |-> rb.children,
                 threw |-> rb.threw, calls |-> r.calls + rb.calls,
                 ids |-> IF rb.threw THEN r.ids ELSE Append(r.ids, r.nextId)])

TlAttach ==
    /\ tlBuilder # <<>>
    /\ Len(attachments) < MaxAttach
    /\ nextId + Len(tlBuilder[1].animations) <= MaxBridgeId
    /\ \E element \in Elements :
          LET r == AttachLoop(tlBuilder[1], element, 1,
                              [store |-> store, nextId |-> nextId, children |-> children,
                               threw |-> FALSE, calls |-> 0, ids |-> <<>>])
          IN /\ store' = r.store
             /\ nextId' = r.nextId
             /\ children' = r.children
             /\ engineCalls' = r.calls
             /\ outcome' = IF r.threw THEN "threw" ELSE "returned"
             /\ issued' = issued \cup {r.ids[k] : k \in 1..Len(r.ids)}
             /\ attachments' =
                   IF r.threw THEN attachments
                   ELSE Append(attachments,
                               [element |-> element, ids |-> r.ids,
                                pre |-> store, called |-> FALSE])
             /\ lastOp' = [op |-> "attach", id |-> Len(attachments) + 1,
                           removed |-> FALSE, again |-> FALSE]
    /\ UNCHANGED <<invoked, tlBuilder, stVars, parseVars, facadeVars>>

\* only the first collected cleanup is invoked
RECURSIVE DetachLoop_firstOnly(_, _, _)
DetachLoop_firstOnly(ids, i, r) ==
    IF i > 1 \/ i > Len(ids) \/ r.threw THEN r
    ELSE LET rm == removeFromStore(r.store, ids[i])
             rb == rebuildTimeline(rm.store)
         IN DetachLoop_firstOnly(ids, i + 1,
                [store |-> rm.store, children |-> rb.children, threw |-> rb.threw,
                 calls |-> r.calls + rb.calls, done |-> r.done \cup {ids[i]},
                 removed |-> r.removed \/ rm.removed])

\* cleanupFunctions.forEach((cleanup) => cleanup()), stopped by the first
\* rebuild that throws
RECURSIVE DetachLoop(_, _, _)
DetachLoop(ids, i, r) ==
    IF i > Len(ids) \/ r.threw THEN r
    ELSE LET rm == removeFromStore(r.store, ids[i])
             rb == rebuildTimeline(rm.store)
         IN DetachLoop(ids, i + 1,
                [store |-> rm.store, children |-> rb.children, threw |-> rb.threw,
                 calls |-> r.calls + rb.calls, done |-> r.done \cup {ids[i]},
                 removed |-> r.removed \/ rm.removed])

\* the combined cleanup returned by the a-th attach
tlDetach(a) ==
    LET r == DetachLoop(attachments[a].ids, 1,
                        [store |-> store, children |-> children, threw |-> FALSE,
                         calls |-> 0, done |-> {}, removed |-> FALSE])
    IN /\ store' = r.store
       /\ children' = r.children
       /\ engineCalls' = r.calls
       /\ outcome' = IF r.threw THEN "threw" ELSE "returned"
       /\ invoked' = invoked \cup r.done
       /\ attachments' = [attachments EXCEPT ![a].called = TRUE]
       /\ lastOp' = [op |-> "detach", id |-> a, removed |-> r.removed,
                     again |-> attachments[a].called]
       /\ UNCHANGED <<nextId, issued, tlBuilder, stVars, parseVars, facadeVars>>

TlDetach == \E a \in 1..Len(attachments) : tlDetach(a)

\* a direct addAnimation call whose property map the engine rejects
AddRejected ==
    /\ nextId < MaxBridgeId
    /\ addAnimation("to", "e1", <<"bad">>, <<>>, Undefined)

NextBridge == TlCreate \/ TlChain \/ TlAttach \/ TlDetach \/ AddRejected

SpecBridge == Init /\ [][NextBridge]_vars

\* The sequencer-bound builder next to Timeline.clear(): the two calls that
\* add descriptors are taken while the ids stay below MaxRecoverId.
RecoverAttach ==
    /\ tlBuilder # <<>>
    /\ nextId + Len(tlBuilder[1].animations) <= MaxRecoverId
    /\ TlAttach

RecoverAddRejected ==
    /\ nextId < MaxRecoverId
    /\ AddRejected

NextRecover ==
    \/ TlCreate
    \/ TlChain
    \/ RecoverAttach
    \/ TlDetach
    \/ RecoverAddRejected
    \/ Clear

SpecRecover == Init /\ [][NextRecover]_vars

(***************************************************************************)
(* ToGSAP.to/from/fromTo/set, createChainableAttach, addStandardMethods    *)
(***************************************************************************)
\* [vars, position].filter((arg) => arg !== undefined)
FilterDefined(args) == SelectSeq(args, LAMBDA x : x # Undefined)

\* the args the facade hands to createChainableAttach
FacadeArgs(methodName, v, position) ==
    IF methodName = "set" THEN <<v>>
    ELSE FilterDefined(Append(BaseArgs(methodName, v), position))

createChainableAttach(methodName, args) ==
    [animations |-> <<[method |-> methodName, args |-> args]>>]

StCreate ==
    /\ stBuilder = <<>>
    /\ \E methodName \in Methods, v \in DirectVars, position \in {Undefined, "lbl"} :
          stBuilder' = <<createChainableAttach(methodName, FacadeArgs(methodName, v, position))>>
    /\ lastOp' = [op |-> "stCreate", id |-> -1, removed |-> FALSE, again |-> FALSE]
    /\ engineCalls' = 0
    /\ outcome' = "returned"
    /\ UNCHANGED <<coreVars, bridgeVars, parseVars, facadeVars, stTweens, stAttachments, stAttachCalls>>

\* ChainableMethodFactory.createMethod without paramHandler: the entry
\* holds the caller's arguments as they are
createMethod(methodName, args) == [method |-> methodName, args |-> args]

\* The calls of one fluent chain run back to back.
StChain ==
    /\ stBuilder # <<>>
    /\ lastOp.op \in {"stCreate", "stChain"}
    /\ Len(stBuilder[1].animations) < MaxChain
    /\ \E methodName \in Methods, v \in DirectVars, rest \in {<<>>, <<"lbl">>} :
          stBuilder' = <<[animations |->
                            Append(stBuilder[1].animations,
                                   createMethod(methodName, BaseArgs(methodName, v) \o rest))]>>
    /\ lastOp' = [op |-> "stChain", id |-> -1, removed |-> FALSE, again |-> FALSE]
    /\ engineCalls' = 0
    /\ outcome' = "returned"
    /\ UNCHANGED <<coreVars, bridgeVars, parseVars, facadeVars, stTweens, stAttachments, stAttachCalls>>

\* animations.map(({method, args}) => method(element, ...args)), stopped by
\* the first construction call that throws
RECURSIVE MapTweens(_, _, _, _)
MapTweens(animations, element, i, r) ==
    IF i > Len(animations) \/ r.threw THEN r
    ELSE IF gsapThrows(animations[i].args)
         THEN [r EXCEPT !.threw = TRUE, !.calls = @ + 1]
         ELSE MapTweens(animations, element, i + 1,
                 [tweens |-> Append(r.tweens,
                                [method |-> animations[i].method, element |-> element,
                                 args |-> animations[i].args, kills |-> 0]),
                  handles |-> Append(r.handles, Len(r.tweens) + 1),
                  threw |-> FALSE,
                  calls |-> r.calls + 1])

StAttach ==
    /\ stBuilder # <<>>
    /\ stAttachCalls < MaxStAttach
    /\ \E element \in Elements :
          LET r == MapTweens(stBuilder[1].animations, element, 1,
                             [tweens |-> stTweens, handles |-> <<>>,
                              threw |-> FALSE, calls |-> 0])
          IN /\ stTweens' = r.tweens
             /\ stAttachments' =
                   IF r.threw THEN stAttachments
                   ELSE Append(stAttachments,
                               [element |-> element, tweens |-> r.handles, calls |-> 0])
             /\ engineCalls' = r.calls
             /\ outcome' = IF r.threw THEN "threw" ELSE "returned"
             /\ lastOp' = [op |-> "stAttach", id |-> Len(stAttachments) + 1,
                           removed |-> FALSE, again |-> FALSE]
    /\ stAttachCalls' = stAttachCalls + 1
    /\ UNCHANGED <<coreVars, bridgeVars, parseVars, facadeVars, stBuilder>>

\* only the first collected tween is killed
killAll_firstOnly(tweens, handles) ==
    [h \in 1..Len(tweens) |->
        IF handles # <<>> /\ h = handles[1]
        THEN [tweens[h] EXCEPT !.kills = @ + 1] ELSE tweens[h]]

\* tweens.forEach((tween) => tween.kill())
killAll(tweens, handles) ==
    [h \in 1..Len(tweens) |->
        IF \E i \in 1..Len(handles) : handles[i] = h
        THEN [tweens[h] EXCEPT !.kills = @ + 1] ELSE tweens[h]]

\* the cleanup returned by the a-th successful invocation of the builder
stDetach(a) ==
    /\ stAttachments[a].calls < MaxDetach
    /\ stTweens' = killAll(stTweens, stAttachments[a].tweens)
    /\ stAttachments' = [stAttachments EXCEPT ![a].calls = @ + 1]
    /\ engineCalls' = 0
    /\ outcome' = "returned"
    /\ lastOp' = [op |-> "stDetach", id |-> a, removed |-> FALSE,
                  again |-> stAttachments[a].calls > 0]
    /\ UNCHANGED <<coreVars, bridgeVars, parseVars, facadeVars, stBuilder, stAttachCalls>>

StDetach == \E a \in 1..Len(stAttachments) : stDetach(a)

NextStandalone == StCreate \/ StChain \/ StAttach \/ StDetach

SpecStandalone == Init /\ [][NextStandalone]_vars

(***************************************************************************)
(* ToGSAP's timeline registry and the exported createTimeline factory.     *)
(* A Timeline object is identified by its construction number; 0 stands    *)
(* for "no value".                                                         *)
(***************************************************************************)
\* the methods of class ToGSAP that share the facade's property namespace
FacadeMembers ==
    {"to", "from", "fromTo", "set", "timeline", "registerTimeline", "createTimeline"}

\* ToGSAP.registerTimeline: Map.set, then Object.defineProperty on the facade
registerTimeline(name, timeline) ==
    /\ timelineRegistry' = [timelineRegistry EXCEPT ![name] = timeline]
    /\ facade' = [facade EXCEPT ![name] = timeline]

\* new Timeline(...args) followed by registerTimeline; name defaults to 'tl'
createTimeline(nameArg) ==
    LET name == IF nameArg = Undefined THEN "tl" ELSE nameArg
        timeline == timelines + 1
    IN /\ timelines < MaxTimelines
       /\ timelines' = timeline
       /\ registerTimeline(name, timeline)
       /\ outcome' = "returned"
       /\ engineCalls' = 0
       /\ UNCHANGED <<coreVars, bridgeVars, stVars, parseVars, found>>

\* toGSAP.createTimeline(name?)
FacadeCreateTimeline ==
    /\ \E nameArg \in RegistryNames \cup {Undefined} : createTimeline(nameArg)
    /\ lastOp' = [op |-> "toGSAP.createTimeline", id |-> timelines + 1,
                  removed |-> FALSE, again |-> FALSE]

\* the exported createTimeline(name?)
FactoryCreateTimeline ==
    /\ \E nameArg \in RegistryNames \cup {Undefined} : createTimeline(nameArg)
    /\ lastOp' = [op |-> "createTimeline", id |-> timelines + 1,
                  removed |-> FALSE, again |-> FALSE]

\* toGSAP[name]: the property registerTimeline defined, else a member of the
\* class, else undefined (tl is declared but never assigned)
Lookup(name) ==
    IF facade[name] # 0 THEN [kind |-> "timeline", timeline |-> facade[name]]
    ELSE IF name \in FacadeMembers THEN [kind |-> "member", timeline |-> 0]
    ELSE [kind |-> "undefined", timeline |-> 0]

FacadeGet ==
    /\ \E name \in RegistryNames :
          found' = <<[name |-> name, value |-> Lookup(name)]>>
    /\ lastOp' = [op |-> "get", id |-> -1, removed |-> FALSE, again |-> FALSE]
    /\ outcome' = "returned"
    /\ engineCalls' = 0
    /\ UNCHANGED <<coreVars, bridgeVars, stVars, parseVars,
                   timelineRegistry, facade, timelines>>

NextRegistry == FacadeCreateTimeline \/ FactoryCreateTimeline \/ FacadeGet

SpecRegistry == Init /\ [][NextRegistry]_vars

(***************************************************************************)
(* Properties of the Sequencer (specification Spec)                        *)
(***************************************************************************)
\* the descriptor of the Store with the given id
DescOf(id) == store[findIndex(store, id)]

InStore(id) == \E i \in 1..Len(store) : store[i].id = id

Explicit(d) == d.order # <<>>

\* the largest explicit order of the Store, as a set expression
ExplicitOrders == {store[i].order[1] : i \in {j \in 1..Len(store) : Explicit(store[j])}}
MaxExplicit ==
    IF ExplicitOrders = {} THEN NegInfinity
    ELSE CHOOSE m \in ExplicitOrders : \A o \in ExplicitOrders : o <= m

Eff(d) == calculateEffectiveOrder(d, MaxExplicit)

ChildIds == [i \in 1..Len(children) |-> children[i].src]
StoreIds == [i \in 1..Len(store) |-> store[i].id]

\* C1: once a call has returned, the children of the underlying timeline are
\* exactly the Store's descriptors, in ascending effective order, equal
\* effective orders in ascending id.
C1_TimelineIsSortedStore ==
    outcome = "returned" =>
        /\ Len(children) = Len(store)
        /\ \A i \in 1..Len(children) :
              /\ InStore(children[i].src)
              /\ children[i] = timelineAdd(DescOf(children[i].src))
        /\ \A i, j \in 1..Len(children) :
              i < j =>
                 LET a == DescOf(children[i].src)
                     b == DescOf(children[j].src)
                 IN \/ Eff(a) < Eff(b)
                    \/ Eff(a) = Eff(b) /\ a.id < b.id

\* a cleanup has removed a descriptor and the two that remain are inserted
\* in the opposite of their Store order
C1_Witness ==
    /\ outcome = "returned"
    /\ lastOp.op = "cleanup" /\ lastOp.removed
    /\ Len(store) = 2 /\ Len(children) = 2
    /\ children[1].src = store[2].id

\* C2: when every descriptor carries an explicit order the insertion
\* sequence is in ascending explicit order; orders 3, 1, 2 attached in that
\* sequence (ids 0, 1, 2) are inserted as id1, id2, id0.
C2_ExplicitOrdersAscending ==
    (outcome = "returned" /\ \A i \in 1..Len(store) : Explicit(store[i])) =>
        /\ \A i, j \in 1..Len(children) :
              i < j => DescOf(children[i].src).order[1] <= DescOf(children[j].src).order[1]
        /\ (StoreIds = <<0, 1, 2>>
            /\ [i \in 1..3 |-> store[i].order] = << <<3>>, <<1>>, <<2>> >>)
              => ChildIds = <<1, 2, 0>>

C2_Witness ==
    /\ outcome = "returned"
    /\ StoreIds = <<0, 1, 2>>
    /\ [i \in 1..3 |-> store[i].order] = << <<3>>, <<1>>, <<2>> >>
    /\ ChildIds = <<1, 2, 0>>

\* C3: with explicit and implicit descriptors in the Store, every implicit
\* one is inserted after every explicit one and implicit ones are inserted
\* in ascending id; after one explicit order 5 followed by two implicit
\* descriptors each implicit effective order is 6 + id.
PosInChildren(id) == CHOOSE i \in 1..Len(children) : children[i].src = id

C3_ImplicitAfterExplicit ==
    /\ outcome = "returned" =>
          \A i, j \in 1..Len(store) :
             LET a == store[i]
                 b == store[j]
             IN /\ (Explicit(a) /\ ~Explicit(b))
                      => PosInChildren(a.id) < PosInChildren(b.id)
                /\ (~Explicit(a) /\ ~Explicit(b) /\ a.id < b.id)
                      => PosInChildren(a.id) < PosInChildren(b.id)
    /\ (Len(store) = 3 /\ store[1].order = <<5>>
        /\ ~Explicit(store[2]) /\ ~Explicit(store[3]))
          => \A i \in 2..3 :
                calculateEffectiveOrder(store[i], maxExplicitOrderOf(store))
                    = 6 + store[i].id

C3_Witness ==
    /\ outcome = "returned"
    /\ Len(store) = 3 /\ store[1].order = <<5>>
    /\ ~Explicit(store[2]) /\ ~Explicit(store[3])
    /\ ChildIds = StoreIds

\* C4: when no descriptor of the Store carries an explicit order, each
\* effective order is 0 + id and the insertion sequence is the declaration
\* order (ascending id).
C4_AllImplicitDeclarationOrder ==
    (\A i \in 1..Len(store) : ~Explicit(store[i])) =>
        /\ \A i \in 1..Len(store) :
              calculateEffectiveOrder(store[i], maxExplicitOrderOf(store)) = store[i].id
        /\ outcome = "returned" =>
              /\ ChildIds = StoreIds
              /\ \A i, j \in 1..Len(children) :
                    i < j => children[i].src < children[j].src

C4_Witness ==
    /\ outcome = "returned"
    /\ Len(store) = 3
    /\ \A i \in 1..Len(store) : ~Explicit(store[i])
    /\ ChildIds = <<0, 1, 2>>

\* C5: when every addAnimation call made so far returned its detach callback
\* and each of those callbacks has been invoked, the Store is empty and the
\* underlying timeline has no children.
C5_RoundTrip ==
    (nextId > 0 /\ issued = 0..(nextId - 1) /\ invoked = issued) =>
        /\ Len(store) = 0
        /\ children = <<>>

\* three descriptors were added and the last callback invoked is the one of
\* the first descriptor
C5_Witness ==
    /\ nextId = 3 /\ issued = {0, 1, 2} /\ invoked = issued
    /\ lastOp.op = "cleanup" /\ lastOp.id = 0 /\ lastOp.removed
    /\ store = <<>> /\ children = <<>>

\* C6: the first invocation of a detach callback removes its descriptor and
\* no other; an invocation after the first leaves the Store unchanged.
C6_RemovalExactlyOnce ==
    [][\A id \in issued :
          cleanup(id) =>
             IF id \in invoked
             THEN store' = store
             ELSE store' = SelectSeq(store, LAMBDA d : d.id # id)]_vars

\* a callback invoked again while other descriptors are in the Store
C6_Witness ==
    /\ lastOp.op = "cleanup" /\ lastOp.again /\ ~lastOp.removed
    /\ Len(store) >= 2

\* C7: invoking a detach callback whose descriptor is no longer in the Store
\* raises no error, leaves the Store and the underlying timeline as they
\* were and makes no engine construction call.
C7_StaleDetachIsNoOp ==
    [][\A id \in invoked :
          (~InStore(id) /\ cleanup(id)) =>
             /\ store' = store
             /\ children' = children
             /\ engineCalls' = 0
             /\ outcome' = "returned"]_vars

(***************************************************************************)
(* Properties of the sequencer-bound bridge (specification SpecBridge)     *)
(***************************************************************************)
\* C8: an attach of a builder with k entries that returns appends exactly k
\* descriptors to the Store, one per entry in chain order, all bound to the
\* element; a combined detach that returns removes exactly the descriptors
\* of its attach, and when it directly follows its attach the Store is
\* again what it was before the attach.
C8_AttachDetachRoundTrip ==
    [][/\ (TlAttach /\ outcome' = "returned") =>
             LET b == tlBuilder[1]
                 k == Len(b.animations)
                 att == attachments'[Len(attachments')]
             IN /\ Len(attachments') = Len(attachments) + 1
                /\ Len(store') = Len(store) + k
                /\ SubSeq(store', 1, Len(store)) = store
                /\ att.ids = [i \in 1..k |-> nextId + i - 1]
                /\ \A i \in 1..k :
                      LET d == store'[Len(store) + i]
                      IN /\ d.id = nextId + i - 1
                         /\ d.element = att.element
                         /\ d.gsapMethod = b.animations[i].method
                         /\ d.order = b.animations[i].order
       /\ \A a \in 1..Len(attachments) :
             /\ (tlDetach(a) /\ outcome' = "returned") =>
                   store' = SelectSeq(store,
                               LAMBDA d : \A i \in 1..Len(attachments[a].ids) :
                                             d.id # attachments[a].ids[i])
             /\ (tlDetach(a) /\ outcome = "returned"
                 /\ lastOp.op = "attach" /\ lastOp.id = a) =>
                   /\ store' = attachments[a].pre
                   /\ outcome' = "returned"]_vars

\* a two-entry attach made on a non-empty Store has just been detached
C8_Witness ==
    /\ lastOp.op = "detach" /\ lastOp.removed /\ ~lastOp.again
    /\ outcome = "returned"
    /\ Len(attachments[lastOp.id].ids) = 2
    /\ store = attachments[lastOp.id].pre
    /\ Len(store) = 2

\* C10: the first entry of the chain is registered with the position parsed
\* from the initiating call whenever that position is present and non-empty,
\* whatever the length of the chain.
C10_FirstEntryKeepsPosition ==
    (/\ lastOp.op = "attach" /\ outcome = "returned"
     /\ tlBuilder[1].position # Undefined /\ tlBuilder[1].position # "") =>
        DescOf(attachments[lastOp.id].ids[1]).position = tlBuilder[1].position

\* the descriptor registered for the i-th entry by the attach that has just
\* returned
Registered(i) == DescOf(attachments[lastOp.id].ids[i])

\* C11: every chained (non-initial) to/from/fromTo entry declared with a
\* string or number position is registered with that value as its position
\* and without it in its args, whichever operation started the chain.
C11_ChainedPositionExtracted ==
    (lastOp.op = "attach" /\ outcome = "returned") =>
        \A i \in 2..Len(tlBuilder[1].animations) :
           LET entry == tlBuilder[1].animations[i]
               last == entry.args[Len(entry.args)]
           IN (entry.method \in {"to", "from", "fromTo"}
               /\ TypeOf(last) \in {"string", "number"}) =>
                 /\ Registered(i).position = last
                 /\ Registered(i).args = Slice(entry.args, Len(entry.args) - 1)

\* C12: an entry whose operation is set, initial or chained, is registered
\* with no position and with its args as declared, whichever operation
\* started the chain.
C12_SetNeverPositioned ==
    (lastOp.op = "attach" /\ outcome = "returned") =>
        \A i \in 1..Len(tlBuilder[1].animations) :
           LET entry == tlBuilder[1].animations[i]
           IN entry.method = "set" =>
                 /\ Registered(i).position = Undefined
                 /\ Registered(i).args = entry.args

\* C13: creating a sequencer-bound builder and chaining calls on it appends
\* exactly one entry per call, in call order, and makes no engine call, no
\* Store mutation and no rebuild; the Store grows only in an invocation of
\* the builder with an element (or a direct addAnimation call).
C13_DeclarationOnlyAccumulates ==
    [][/\ TlCreate =>
             /\ UNCHANGED <<store, nextId, children, issued, invoked>>
             /\ engineCalls' = 0
             /\ Len(tlBuilder'[1].animations) = 1
       /\ TlChain =>
             /\ UNCHANGED <<store, nextId, children, issued, invoked>>
             /\ engineCalls' = 0
             /\ Len(tlBuilder'[1].animations) = Len(tlBuilder[1].animations) + 1
             /\ SubSeq(tlBuilder'[1].animations, 1, Len(tlBuilder[1].animations))
                   = tlBuilder[1].animations
       /\ Len(store') > Len(store) => lastOp'.op \in {"attach", "addAnimation"}]_vars

\* a second entry has been chained while the Store holds a descriptor
C13_Witness ==
    /\ lastOp.op = "chain"
    /\ Len(tlBuilder[1].animations) = 2
    /\ Len(store) = 1
    /\ engineCalls = 0

\* C19 as stated: an implicit descriptor's effective order is the largest
\* explicit order of the Store, or 0 when the Store has none, plus 1 plus its
\* id; an explicit descriptor's effective order is its order.
C19_EffectiveOrderAsStated ==
    \A i \in 1..Len(store) :
        calculateEffectiveOrder(store[i], maxExplicitOrderOf(store)) =
            IF Explicit(store[i]) THEN store[i].order[1]
            ELSE (IF ExplicitOrders = {} THEN 0 ELSE MaxExplicit) + 1 + store[i].id

\* C19: an implicit descriptor's effective order is the largest explicit
\* order of the Store plus 1 plus its id when the Store holds an explicit
\* order, and its id alone when it holds none; an explicit descriptor's
\* effective order is its order.
C19_EffectiveOrder ==
    \A i \in 1..Len(store) :
        calculateEffectiveOrder(store[i], maxExplicitOrderOf(store)) =
            IF Explicit(store[i]) THEN store[i].order[1]
            ELSE IF ExplicitOrders = {} THEN store[i].id
            ELSE MaxExplicit + 1 + store[i].id

\* explicit orders 3 and 1 followed by an implicit descriptor, whose
\* effective order is 3 + 1 + 2
C19_Witness ==
    /\ lastOp.op = "addAnimation"
    /\ [i \in 1..Len(store) |-> store[i].order] = << <<3>>, <<1>>, <<>> >>
    /\ store[3].id = 2
    /\ calculateEffectiveOrder(store[3], maxExplicitOrderOf(store)) = 6

\* C20: a rebuild that follows a rebuild with no Store mutation in between
\* (a detach callback whose descriptor is already gone, invoked right after
\* an addAnimation call or a detach callback) yields the same child sequence
\* with the same positions, and ends as the first one did.
C20_RebuildIdempotent ==
    [][\A id \in issued :
          (lastOp.op \in {"addAnimation", "cleanup"} /\ cleanup(id) /\ store' = store) =>
              /\ children' = children
              /\ outcome' = outcome
              /\ engineCalls' = engineCalls]_vars

\* a second rebuild of an unchanged Store of two descriptors, one of them
\* inserted at a position
C20_Witness ==
    /\ lastOp.op = "cleanup" /\ lastOp.again /\ ~lastOp.removed
    /\ outcome = "returned"
    /\ Len(children) = 2
    /\ \E i \in 1..2 : children[i].position = "lbl"

\* C21: the id counter starts at 0 and never goes down; an addAnimation call
\* gives its descriptor the counter's value and advances the counter by one,
\* and no other call changes the counter, clear() and removals included; so
\* the ids in the Store are pairwise distinct and below the counter, and an
\* id is never given twice.
C21_IdsFreshMonotonic ==
    [][/\ lastOp.op = "init" => nextId = 0
       /\ nextId' >= nextId
       /\ \A i \in 1..Len(store') : store'[i].id < nextId'
       /\ \A i, j \in 1..Len(store') : i # j => store'[i].id # store'[j].id
       /\ issued' \subseteq 0..(nextId' - 1)
       /\ IF lastOp'.op = "addAnimation"
          THEN /\ lastOp'.id = nextId
               /\ nextId' = nextId + 1
               /\ store'[Len(store')].id = nextId
               /\ \A i \in 1..Len(store) : store[i].id < nextId
               /\ nextId \notin issued
          ELSE nextId' = nextId]_vars

\* the third descriptor was added after clear() emptied the Store of the
\* first two, and its id is 2
C21_Witness ==
    /\ lastOp.op = "addAnimation"
    /\ lastOp.id = 2
    /\ StoreIds = <<2>>
    /\ invoked = {}

\* C22: a detach callback leaves every descriptor other than its own in the
\* Store, in the same order, and when its own descriptor is no longer there
\* (removed earlier, or dropped by clear() before further addAnimation
\* calls) it leaves the Store's contents as they were.
C22_DetachRemovesOnlyOwn ==
    [][\A id \in issued :
          cleanup(id) =>
              /\ store' = SelectSeq(store, LAMBDA d : d.id # id)
              /\ ~InStore(id) => store' = store]_vars

\* a detach callback handed out before clear() has been invoked for the
\* first time after a later addAnimation call, and the Store still holds
\* that later descriptor
C22_Witness ==
    /\ lastOp.op = "cleanup"
    /\ lastOp.id = 0
    /\ ~lastOp.again /\ ~lastOp.removed
    /\ Len(store) >= 1

PosIn(ch, id) == CHOOSE i \in 1..Len(ch) : ch[i].src = id

\* C23: two descriptors that are in the timeline's insertion sequence before
\* and after an addAnimation call or a detach callback for a third
\* descriptor are inserted in the same relative order before and after.
C23_RelativeOrderStable ==
    [][lastOp'.op \in {"addAnimation", "cleanup"} =>
          \A i, j \in 1..Len(children) :
             LET a == children[i].src
                 b == children[j].src
             IN (/\ i < j
                 /\ \E k \in 1..Len(children') : children'[k].src = a
                 /\ \E k \in 1..Len(children') : children'[k].src = b)
                   => PosIn(children', a) < PosIn(children', b)]_vars

\* an explicit order 5 was added to an implicit descriptor and an explicit
\* order 2: the implicit effective order went from 3 to 6 and the two are
\* still inserted as before, explicit first
C23_Witness ==
    /\ lastOp.op = "addAnimation"
    /\ lastOp.id = 2
    /\ [i \in 1..Len(store) |-> store[i].order] = << <<>>, <<2>>, <<5>> >>
    /\ ChildIds = <<1, 2, 0>>

\* C18: an invocation of the combined detach callback of a sequencer-bound
\* attach completes, and after it none of the descriptors that attach
\* registered is left in the Store.
C18_DetachCompletes ==
    lastOp.op = "detach" =>
        /\ outcome = "returned"
        /\ \A i \in 1..Len(attachments[lastOp.id].ids) :
              ~InStore(attachments[lastOp.id].ids[i])

\* C17: when the rebuild triggered by an addAnimation call or by a detach
\* callback meets a descriptor whose construction the engine rejects, the
\* call ends in an error for its caller: the rebuild stops at the rejected
\* construction, and a failed addAnimation hands out no detach callback.  A
\* call ends in an error only in that case.
C17_EngineFailurePropagates ==
    lastOp.op \in {"addAnimation", "cleanup"} =>
        LET sorted == sortedTweens(store, maxExplicitOrderOf(store))
            rejected == \E i \in 1..Len(store) : gsapThrows(store[i].args)
        IN /\ rejected <=> outcome = "threw"
           /\ rejected =>
                 /\ gsapThrows(sorted[engineCalls].args)
                 /\ Len(children) = engineCalls - 1
                 /\ lastOp.op = "addAnimation" => lastOp.id \notin issued

\* a detach callback whose rebuild met a rejected construction after one
\* successful construction
C17_Witness ==
    /\ lastOp.op = "cleanup"
    /\ outcome = "threw"
    /\ engineCalls = 2
    /\ Len(children) = 1

(***************************************************************************)
(* Descriptors left behind by a failed call (specification SpecRecover)    *)
(***************************************************************************)
\* the ids for which some combined detach callback has been returned
Held == UNION {{attachments[a].ids[k] : k \in 1..Len(attachments[a].ids)} :
                  a \in 1..Len(attachments)}

\* C24: an addAnimation call whose rebuild fails leaves its descriptor in
\* the Store and returns no detach callback; an attach that fails on its
\* j-th entry leaves the j descriptors it pushed in the Store, the rejected
\* one last, and returns no combined detach; a descriptor in the Store for
\* which no detach callback was returned leaves the Store only by clear().
C24_FailedAddLeavesOrphan ==
    [][LET HeldNext == UNION {{attachments'[a].ids[k] : k \in 1..Len(attachments'[a].ids)} :
                                 a \in 1..Len(attachments')}
           StoreIdsNext == {store'[i].id : i \in 1..Len(store')}
       IN /\ (lastOp'.op = "addAnimation" /\ outcome' = "threw") =>
                /\ Len(store') = Len(store) + 1
                /\ SubSeq(store', 1, Len(store)) = store
                /\ store'[Len(store')].id = nextId
                /\ nextId \notin issued'
                /\ nextId \notin HeldNext
          /\ (lastOp'.op = "attach" /\ outcome' = "threw") =>
                /\ attachments' = attachments
                /\ nextId' > nextId
                /\ Len(store') = Len(store) + (nextId' - nextId)
                /\ SubSeq(store', 1, Len(store)) = store
                /\ \A id \in nextId..(nextId' - 1) :
                      id \in StoreIdsNext /\ id \notin HeldNext
                /\ gsapThrows(store'[Len(store')].args)
                   \/ \E i \in 1..Len(store) : gsapThrows(store[i].args)
          /\ \A i \in 1..Len(store) :
                (store[i].id \notin Held /\ store[i].id \notin StoreIdsNext)
                   => lastOp'.op = "clear"]_vars

\* an attach failed on its second entry: both descriptors are in the Store
\* and no combined detach exists
C24_Witness ==
    /\ lastOp.op = "attach"
    /\ outcome = "threw"
    /\ attachments = <<>>
    /\ Len(store) = 2
    /\ nextId = 2
    /\ ~gsapThrows(store[1].args)
    /\ gsapThrows(store[2].args)

(***************************************************************************)
(* Properties of parseTimelineOptions (specification SpecParse)            *)
(***************************************************************************)
\* C14: when the second argument is an options object the returned
\* {position, order} pair is the object's two fields, whatever the trailing
\* order argument is and even when the object has no order; otherwise the
\* position is the bare second argument and the order the trailing argument.
C14_ParseTakesObjectOrBare ==
    parseResult # <<>> =>
        LET a == parseArgs
            r == parseResult[1]
        IN IF a.positionOrOptions.obj
           THEN /\ r.position = a.positionOrOptions.position
                /\ r.order = a.positionOrOptions.order
           ELSE /\ r.position = a.positionOrOptions.position
                /\ r.order = a.order

\* an options object without an order was parsed next to a trailing order
C14_Witness ==
    /\ parseResult # <<>>
    /\ parseArgs.positionOrOptions.obj
    /\ parseArgs.positionOrOptions.order = <<>>
    /\ parseArgs.order = <<2>>
    /\ parseResult[1].order = <<>>

(***************************************************************************)
(* Properties of the facade's registry (specification SpecRegistry)        *)
(***************************************************************************)
\* C15: in every reachable state of the facade, the initial one included,
\* looking up the default name tl on the facade yields a Sequencer's builder
\* surface.
C15_DefaultAlwaysAvailable == Lookup("tl").kind = "timeline"

\* C16: a name under which a Timeline has been registered looks up to the
\* Timeline most recently registered under it, and a name never registered
\* looks up to an absent result, in every registry state.
C16_RegistryLookup ==
    \A name \in RegistryNames :
        IF timelineRegistry[name] # 0
        THEN Lookup(name) = [kind |-> "timeline", timeline |-> timelineRegistry[name]]
        ELSE Lookup(name).kind = "undefined"

(***************************************************************************)
(* Properties of the standalone bridge (specification SpecStandalone)      *)
(***************************************************************************)
\* C9: no tween handle exists before the builder is invoked with an
\* element; an invocation that returns has created one handle per entry, in
\* chain order on that element; none of them is killed before the returned
\* detach is invoked, and after one invocation of it each has received kill
\* exactly once.
C9_KilledExactlyOnce ==
    /\ stAttachCalls = 0 => stTweens = <<>>
    /\ \A a \in 1..Len(stAttachments) :
          LET att == stAttachments[a]
              n == Len(stBuilder[1].animations)
          IN /\ Len(att.tweens) = n
             /\ \A i \in 1..n :
                   LET t == stTweens[att.tweens[i]]
                   IN /\ t.method = stBuilder[1].animations[i].method
                      /\ t.args = stBuilder[1].animations[i].args
                      /\ t.element = att.element
                      /\ att.calls = 0 => t.kills = 0
                      /\ att.calls = 1 => t.kills = 1

\* a two-entry builder attached and detached once
C9_Witness ==
    /\ lastOp.op = "stDetach" /\ ~lastOp.again
    /\ Len(stBuilder[1].animations) = 2
    /\ stAttachments[lastOp.id].calls = 1
    /\ \A i \in 1..2 : stTweens[stAttachments[lastOp.id].tweens[i]].kills = 1

====
